---- MODULE Spec2Model ----
(***************************************************************************)
(* Stark Paper Analyzer (src/backend): the job registry JOBS, the result   *)
(* cache ANALYSIS_CACHE and the lock STORE_LOCK of main.py, driven by the   *)
(* background worker _run_analysis_job, the synchronous handler            *)
(* analyze_pdf and the two job accessors, over the summarization pipeline  *)
(* of summarizer.py.                                                       *)
(*                                                                         *)
(* Threads.  analyze_pdf and create_analysis_job are `async def` handlers  *)
(* with no await after file.read(): they run on the event loop, one at a   *)
(* time.  _run_analysis_job, get_job_status and get_job_result are plain   *)
(* `def`s: the framework runs each in a thread of its pool, so they        *)
(* interleave with each other and with the event loop at every bytecode.   *)
(* A `with STORE_LOCK:` block is two steps, the acquire and the body with   *)
(* its release.  dict.update and a dict item read or write are single      *)
(* operations of the interpreter (one C call under the GIL).               *)
(***************************************************************************)
EXTENDS Integers, Sequences, FiniteSets, TLC

\* ------------------------------------------------------------------ bounds
MaxJobs == 2
MaxSync == 1
MaxReads == 1
MaxSections == 2
MaxParas == 2

\* ------------------------------------------------------- program constants
MAX_CHUNK_CHARS == 12000
max_retries == 3
base_delay == 40

\* --------------------------------------------------------------- null values
\* Python's None, for a string-valued and for a dict-valued field.
None == "<None>"
NoPayload == [none |-> TRUE]

\* ---------------------------------------------------------- abstract strings
\* A string is kept as its length, the lengths of its leading and trailing
\* whitespace, and whether it is all whitespace: what len(), strip() and
\* concatenation read and produce.
AStr(n, l, t) == [len |-> n, lead |-> l, trail |-> t, blank |-> FALSE]
Blank(n) == [len |-> n, lead |-> n, trail |-> n, blank |-> TRUE]
Text(n) == AStr(n, 0, 0)
Empty == Blank(0)
ParaSep == Blank(2)

Concat(a, b) ==
    [len |-> a.len + b.len,
     lead |-> IF a.blank THEN a.len + b.lead ELSE a.lead,
     trail |-> IF b.blank THEN b.len + a.trail ELSE b.trail,
     blank |-> a.blank /\ b.blank]

Strip(s) == IF s.blank THEN Empty ELSE Text(s.len - s.lead - s.trail)

\* "\n\n".join(paras): the content whose split("\n\n") is paras.
RECURSIVE JoinParas(_)
JoinParas(paras) ==
    IF Len(paras) = 0 THEN Empty
    ELSE IF Len(paras) = 1 THEN paras[1]
    ELSE Concat(Concat(paras[1], ParaSep), JoinParas(Tail(paras)))

\* ------------------------------------------------------------------ inputs
\* The uploads: four byte contents, each with what the parser and the
\* segmenter make of it.
\*   1  not a PDF: pdfplumber raises with a message
\*   2  a PDF the parser rejects with an exception that carries no message
\*      (str(e) = "": an exception raised without arguments, as pdfminer
\*      does for a password-protected file)
\*   3  a scanned PDF: one page, no extractable text
\*   4  a paper of two pages with no heading the segmenter knows: one
\*      section, "Full Document", of two paragraphs of about 7000 characters
Docs == 1 .. 4

Section(n, paras, page) == [name |-> n, paras |-> paras, page_start |-> page]

DocTable ==
    <<[parse_error |-> "No /Root object! - Is this really a PDF?",
       n_pages |-> 0, text_len |-> 0, blank |-> TRUE, sections |-> <<>>],
      [parse_error |-> "",
       n_pages |-> 0, text_len |-> 0, blank |-> TRUE, sections |-> <<>>],
      [parse_error |-> None,
       n_pages |-> 1, text_len |-> 0, blank |-> TRUE, sections |-> <<>>],
      [parse_error |-> None,
       n_pages |-> 2, text_len |-> 14109, blank |-> FALSE,
       sections |-> <<Section("Full Document",
                              <<Text(7000), AStr(7107, 0, 1)>>, 1)>>]>>

Filenames == {"paper.pdf", "notes.txt"}

\* file.filename.lower().endswith(".pdf")
IsPdfName(f) == f = "paper.pdf"

\* hashlib.sha256(file_bytes).hexdigest(): one digest per content.
Sha256(d) == <<"sha256", d>>

\* extract_text_by_pages: the exception's message, or None when it returns.
extract_text_by_pages(d) == DocTable[d].parse_error

\* not full_text.strip()
TextIsBlank(d) == DocTable[d].blank

\* detect_sections(pages)
detect_sections(d) == DocTable[d].sections

\* count_tokens(full_text)
count_tokens(d) == DocTable[d].text_len \div 4

\* _now_iso(): a timestamp; only set / unset is read by the program.
_now_iso == "ts"

\* -------------------------------------------------------------- summarizer
\* A chunk's name: the section's name, or f"{name} (Part {k})" (part 0: the
\* plain name).
ChunkName(n, k) == [base |-> n, part |-> k]

Chunk(n, k, content, page) ==
    [name |-> ChunkName(n, k), content |-> content, page_start |-> page]

\* The paragraph loop of chunk_by_sections for one oversized section: paras
\* from index i on, with current_chunk and chunk_index as they stand.
RECURSIVE SplitSection(_, _, _, _, _, _)
SplitSection(section, i, current_chunk, chunk_index, max_chars, chunks) ==
    IF i > Len(section.paras)
    THEN IF ~Strip(current_chunk).blank
         THEN Append(chunks,
                     Chunk(section.name,
                           IF chunk_index > 1 THEN chunk_index ELSE 0,
                           Strip(current_chunk), section.page_start))
         ELSE chunks
    ELSE LET para == section.paras[i] IN
         IF current_chunk.len + para.len + 2 > max_chars
         THEN IF ~Strip(current_chunk).blank
              THEN SplitSection(section, i + 1, para, chunk_index + 1, max_chars,
                                Append(chunks,
                                       Chunk(section.name, chunk_index,
                                             Strip(current_chunk),
                                             section.page_start)))
              ELSE SplitSection(section, i + 1, para, chunk_index, max_chars, chunks)
         ELSE SplitSection(section, i + 1,
                           Concat(Concat(current_chunk, ParaSep), para),
                           chunk_index, max_chars, chunks)

ChunksOfSection(section, max_chars) ==
    LET content == JoinParas(section.paras) IN
    IF content.len <= max_chars
    THEN <<Chunk(section.name, 0, content, section.page_start)>>
    ELSE SplitSection(section, 1, Empty, 1, max_chars, <<>>)

RECURSIVE chunk_by_sections(_, _)
chunk_by_sections(sections, max_chars) ==
    IF Len(sections) = 0 THEN <<>>
    ELSE ChunksOfSection(Head(sections), max_chars)
         \o chunk_by_sections(Tail(sections), max_chars)

\* The Summarization Service as one invocation of _call_gemini meets it: the
\* outcome of each attempt it may make.  "ok": a JSON response; "quota": an
\* error whose text holds RESOURCE_EXHAUSTED or quota; "other": any other
\* error (json.loads raising included).
Outcomes == {"ok", "quota", "other"}
QuotaScript == [a \in 1 .. max_retries |-> "quota"]
\* One script per way an invocation can go: quota errors, then the attempt
\* that decides, or max_retries quota errors.
Scripts ==
    {QuotaScript} \cup
    {[a \in 1 .. n |-> IF a < n THEN "quota" ELSE last] :
        n \in 1 .. max_retries, last \in {"ok", "other"}}

ServiceError == "503 UNAVAILABLE"
\* str(RateLimitExceeded(...)): the f-string of _call_gemini with max_retries.
RateLimitMessage ==
    "Rate limit exceeded after 3 attempts. Please wait a few minutes before trying again."

RECURSIVE Pow2(_)
Pow2(n) == IF n = 0 THEN 1 ELSE 2 * Pow2(n - 1)

\* The loop of _call_gemini from attempt number `attempt` on, `calls` calls
\* made and `slept` seconds slept so far.
RECURSIVE CallFrom(_, _, _, _)
CallFrom(script, attempt, calls, slept) ==
    IF attempt >= max_retries
    THEN [kind |-> "none", calls |-> calls, slept |-> slept]
    ELSE LET outcome == script[attempt + 1] IN
         CASE outcome = "ok" ->
                [kind |-> "ok", calls |-> calls + 1, slept |-> slept]
           [] outcome = "other" ->
                [kind |-> "error", calls |-> calls + 1, slept |-> slept]
           [] OTHER ->
                IF attempt < max_retries - 1
                THEN CallFrom(script, attempt + 1, calls + 1,
                              slept + base_delay * Pow2(attempt))
                ELSE [kind |-> "rate_limit", calls |-> calls + 1, slept |-> slept]

\* _call_gemini(prompt): "ok" (the parsed response is returned),
\* "rate_limit" (RateLimitExceeded is raised) or "error" (the service's error
\* is re-raised).
_call_gemini(script) == CallFrom(script, 0, 0, 0)

\* What the service answers to a chunk prompt and to the synthesis prompt.
ChunkResponse ==
    [summary |-> <<"S">>, key_points |-> <<"p1">>, key_terms |-> <<"t1">>]

GlobalResponse ==
    [inferred_title |-> "A Paper",
     global_summary |-> <<"G">>,
     problem_statement |-> "problem",
     methodology |-> "method",
     key_contributions |-> <<"c1">>,
     limitations |-> <<"l1">>,
     future_work |-> <<"f1">>,
     all_key_terms |-> <<"t1">>]

\* summarize_chunk(chunk) when _call_gemini returns.
summarize_chunk(chunk) ==
    [section_name |-> chunk.name,
     page_start |-> chunk.page_start,
     summary |-> ChunkResponse.summary,
     key_points |-> ChunkResponse.key_points,
     key_terms |-> ChunkResponse.key_terms]

\* process_paper's entry for a chunk whose summarization raised a non-quota
\* error.
DegradedSummary(chunk, msg) ==
    [section_name |-> chunk.name,
     page_start |-> chunk.page_start,
     summary |-> <<"Error summarizing: ", msg>>,
     key_points |-> <<>>,
     key_terms |-> <<>>]

\* process_paper's global analysis when the synthesis raised a non-quota
\* error.
PlaceholderGlobal(msg) ==
    [inferred_title |-> "Unknown",
     global_summary |-> <<"Error generating global summary: ", msg>>,
     problem_statement |-> "",
     methodology |-> "",
     key_contributions |-> <<>>,
     limitations |-> <<>>,
     future_work |-> <<>>,
     all_key_terms |-> <<>>]

\* process_paper's return value.  A full analysis has no "mode" key in its
\* stats: mode None.
FullAnalysis(global_analysis, section_summaries, sections, chunks) ==
    [global |-> global_analysis,
     sections |-> section_summaries,
     stats |-> [total_sections |-> Len(sections),
                total_chunks_processed |-> Len(chunks),
                mode |-> None]]

\* ------------------------------------------------------------------ main.py
FallbackSection(section) ==
    [section_name |-> ChunkName(section.name, 0),
     page_start |-> section.page_start,
     summary |-> <<"Detailed LLM summary is pending due to temporary API quota limits.">>,
     key_points |-> <<>>,
     key_terms |-> <<>>]

_build_fallback_analysis(sections, reason) ==
    [global |->
        [inferred_title |-> "Analysis Pending",
         global_summary |-> reason,
         problem_statement |-> "",
         methodology |-> "",
         key_contributions |-> <<>>,
         limitations |-> <<"Gemini quota limit hit during this run.">>,
         future_work |-> <<"Retry full analysis once quota resets.",
                           "Use async job endpoint for automatic background retries.">>,
         all_key_terms |-> <<>>],
     sections |-> [i \in 1 .. Len(sections) |-> FallbackSection(sections[i])],
     stats |-> [total_sections |-> Len(sections),
                total_chunks_processed |-> 0,
                mode |-> "fallback_quota_limited"]]

FallbackReason ==
    <<"Gemini rate limit reached. Showing extracted structure now; ",
      "retry later for full semantic analysis.">>

\* The payload both paths build around an analysis.
Payload(fname, d, analysis, cached) ==
    [filename |-> fname,
     total_pages |-> DocTable[d].n_pages,
     total_tokens |-> count_tokens(d),
     analysis |-> analysis,
     cached |-> cached]

\* Mutant of MarkCached: the entry is handed out as stored.
MarkCachedAsStored(p) == p

\* {**cached_payload, "cached": True}
MarkCached(p) == [p EXCEPT !.cached = TRUE]

EmptyTextMessage == "PDF contains no extractable text. It may be scanned/image-based."

\* ------------------------------------------------------------------- state
\* Job ids (uuid4 strings in the program: fresh, never reused) are 1, 2, ...
\* in order of creation.  Process j in JobIds is the pool thread that runs
\* _run_analysis_job for job j; EventLoop is the event loop thread, which
\* runs analyze_pdf and create_analysis_job; Reader is a pool thread that runs
\* get_job_status or get_job_result.
JobIds == 1 .. MaxJobs
EventLoop == MaxJobs + 1
Reader == MaxJobs + 2
Procs == JobIds \cup {EventLoop}

VARIABLES
    JOBS,               \* job id -> job record (the dict JOBS)
    ANALYSIS_CACHE,     \* digest -> payload (the dict ANALYSIS_CACHE)
    STORE_LOCK,         \* the set of threads holding STORE_LOCK: {} or {p}
    pc,                 \* where each process stands
    file_bytes,         \* the upload each process works on
    filename,           \* its file name
    cached_payload,     \* local of _run_analysis_job / analyze_pdf
    section_summaries,  \* local of process_paper
    payload,            \* local payload (full, or the worker's fallback)
    exc,                \* the message of the exception being handled
    called,             \* whether the request has called the service
    service,            \* how the Summarization Service behaves
    response,           \* the last response of analyze_pdf / create_analysis_job
    nSync,              \* analyze_pdf requests received
    rd,                 \* the accessor call in flight, and its answer
    nReads,             \* accessor calls made
    first_full,         \* history: digest -> the first full result delivered
    prior,              \* history: first_full of its digest when the request came
    rewritten,          \* history: the digests whose entry has been written over
    sent,               \* history: the service invocations of the request's pipeline
    call,               \* one invocation of _call_gemini, on its own
    chunker             \* one call of chunk_by_sections, on its own

vars == <<JOBS, ANALYSIS_CACHE, STORE_LOCK, pc, file_bytes, filename,
          cached_payload, section_summaries, payload, exc, called, service,
          response, nSync, rd, nReads, first_full, prior, rewritten, sent,
          call, chunker>>

history == <<first_full, prior, rewritten>>

locals == <<file_bytes, filename, cached_payload, section_summaries, payload,
            exc, called, sent>>

\* The functions run on their own.
units == <<call, chunker>>

NoResponse == [code |-> 0, detail |-> <<>>, body |-> NoPayload]
Http(code, detail) == [code |-> code, detail |-> detail, body |-> NoPayload]
Ok200(body) == [code |-> 200, detail |-> <<>>, body |-> body]

\* The accessor call: the handler (op), its job_id argument, its position,
\* whether JOBS.get found a record, the fields read from it so far, and the
\* answer (code 0: none yet).
IdleReader ==
    [op |-> "idle", id |-> 1, pc |-> "idle", found |-> FALSE,
     status |-> None, started_at |-> None, completed_at |-> None,
     error |-> None, code |-> 0, detail |-> None, body |-> NoPayload]

\* No function is being run on its own.
NoCall == [pc |-> "idle"]
NoChunking == [pc |-> "idle"]

\* The process after start-up: empty registry and cache, the lock free, no
\* request received.
ProgramInit ==
    /\ JOBS = <<>>
    /\ ANALYSIS_CACHE = <<>>
    /\ STORE_LOCK = {}
    /\ pc = [p \in Procs |-> IF p = EventLoop THEN "idle" ELSE "none"]
    /\ file_bytes = [p \in Procs |-> 1]
    /\ filename = [p \in Procs |-> None]
    /\ cached_payload = [p \in Procs |-> NoPayload]
    /\ section_summaries = [p \in Procs |-> <<>>]
    /\ payload = [p \in Procs |-> NoPayload]
    /\ exc = [p \in Procs |-> None]
    /\ called = [p \in Procs |-> FALSE]
    /\ sent = [p \in Procs |-> <<>>]
    /\ response = NoResponse
    /\ nSync = 0
    /\ rd = IdleReader
    /\ nReads = 0
    /\ first_full = <<>>
    /\ prior = [p \in Procs |-> NoPayload]
    /\ rewritten = {}

Init ==
    /\ ProgramInit
    /\ service \in {"any", "always_quota"}
    /\ call = NoCall
    /\ chunker = NoChunking

\* The locals of a call that has returned or unwound are gone.
Dropped(local, p, empty) == [local EXCEPT ![p] = empty]

\* ------------------------------------------------------------------ the lock
\* `with STORE_LOCK:` entered: the process stands before a locked block and
\* the lock is free.  LockedBlock names the block each waiting position
\* enters.
LockedBlock ==
    [start |-> "set_running", lookup_wait |-> "lookup", hit |-> "set_cached",
     write_wait |-> "write", complete_wait |-> "set_completed",
     quota |-> "set_partial", fail |-> "set_failed", create_wait |-> "create"]

Acquire(p) ==
    /\ pc[p] \in DOMAIN LockedBlock
    /\ STORE_LOCK = {}
    /\ STORE_LOCK' = {p}
    /\ pc' = [pc EXCEPT ![p] = LockedBlock[pc[p]]]
    /\ UNCHANGED <<JOBS, ANALYSIS_CACHE, locals, service, units, response, nSync, rd, nReads, history>>

\* ------------------------------------------------------------ job registry
Get(updates, key, old) == IF key \in DOMAIN updates THEN updates[key] ELSE old

\* job.update(updates)
Updated(job, updates) ==
    [job_id |-> Get(updates, "job_id", job.job_id),
     filename |-> Get(updates, "filename", job.filename),
     status |-> Get(updates, "status", job.status),
     created_at |-> Get(updates, "created_at", job.created_at),
     started_at |-> Get(updates, "started_at", job.started_at),
     completed_at |-> Get(updates, "completed_at", job.completed_at),
     error |-> Get(updates, "error", job.error),
     result |-> Get(updates, "result", job.result)]

\* The body of _set_job, under the lock.
_set_job(jobs, job_id, updates) ==
    IF job_id \notin DOMAIN jobs THEN jobs
    ELSE [jobs EXCEPT ![job_id] = Updated(@, updates)]

\* A dict with one more key, or one key rebound.
Put(dict, key, value) ==
    [k \in DOMAIN dict \cup {key} |-> IF k = key THEN value ELSE dict[k]]

NewJob(job_id, fname) ==
    [job_id |-> job_id,
     filename |-> fname,
     status |-> "queued",
     created_at |-> _now_iso,
     started_at |-> None,
     completed_at |-> None,
     error |-> None,
     result |-> NoPayload]

\* ANALYSIS_CACHE.get(file_hash)
CacheGet(cache, file_hash) ==
    IF file_hash \in DOMAIN cache THEN cache[file_hash] ELSE NoPayload

\* History only: the first full result delivered for a digest is recorded,
\* and a request notes on arrival what had been delivered for its digest.
Delivered(file_hash, result) ==
    IF file_hash \in DOMAIN first_full THEN first_full
    ELSE Put(first_full, file_hash, result)

Arrived(p, d) == [prior EXCEPT ![p] = CacheGet(first_full, Sha256(d))]

\* History only: a write to a digest the cache already holds.
Rewrote(file_hash) ==
    IF file_hash \in DOMAIN ANALYSIS_CACHE THEN rewritten \cup {file_hash}
    ELSE rewritten

\* chunk_by_sections(sections) of process_paper (summarizer.py line 202) on
\* the sections of the request's document.
Chunks(p) == chunk_by_sections(detect_sections(file_bytes[p]), MAX_CHUNK_CHARS)

\* ---------------------------------------------------- create_analysis_job
JobAck(job_id) ==
    [code |-> 200, detail |-> <<>>,
     body |-> [job_id |-> job_id, status |-> "queued"]]

\* Lines 254-259: the request arrives on the idle event loop; a name that
\* does not end in .pdf is refused with 400.
CreateReceive(f, d) ==
    /\ pc[EventLoop] = "idle"
    /\ Cardinality(DOMAIN JOBS) < MaxJobs
    /\ IF ~IsPdfName(f)
       THEN /\ response' = Http(400, <<"Only PDF files are accepted.">>)
            /\ prior' = [prior EXCEPT ![EventLoop] = NoPayload]
            /\ UNCHANGED <<pc, file_bytes, filename>>
       ELSE /\ pc' = [pc EXCEPT ![EventLoop] = "create_wait"]
            /\ file_bytes' = [file_bytes EXCEPT ![EventLoop] = d]
            /\ filename' = [filename EXCEPT ![EventLoop] = f]
            /\ prior' = Arrived(EventLoop, d)
            /\ UNCHANGED response
    /\ called' = [called EXCEPT ![EventLoop] = FALSE]
    /\ UNCHANGED <<JOBS, ANALYSIS_CACHE, STORE_LOCK, cached_payload,
                   section_summaries, payload, exc, sent, service, units, nSync, rd, nReads, first_full,
                   rewritten>>

\* Mutant of CreateInsert: the record is inserted with started_at set.
CreateInsertStarted ==
    /\ pc[EventLoop] = "create"
    /\ LET job_id == Cardinality(DOMAIN JOBS) + 1 IN
       /\ JOBS' = Put(JOBS, job_id,
                      [NewJob(job_id, filename[EventLoop])
                          EXCEPT !.started_at = _now_iso])
       /\ pc' = [pc EXCEPT ![EventLoop] = "idle", ![job_id] = "start"]
       /\ file_bytes' = [file_bytes EXCEPT ![job_id] = file_bytes[EventLoop]]
       /\ filename' = [filename EXCEPT ![job_id] = filename[EventLoop]]
       /\ response' = JobAck(job_id)
       /\ prior' = [prior EXCEPT ![job_id] = prior[EventLoop], ![EventLoop] = NoPayload]
    /\ STORE_LOCK' = {}
    /\ UNCHANGED <<ANALYSIS_CACHE, cached_payload, section_summaries, payload,
                   exc, called, sent, service, units, nSync, rd, nReads, first_full,
                   rewritten>>

\* Lines 261-280: the record is inserted under the lock, the task is added
\* and the acknowledgement returned; the task runs once the response is sent.
CreateInsert ==
    /\ pc[EventLoop] = "create"
    /\ LET job_id == Cardinality(DOMAIN JOBS) + 1 IN
       /\ JOBS' = Put(JOBS, job_id, NewJob(job_id, filename[EventLoop]))
       /\ pc' = [pc EXCEPT ![EventLoop] = "idle", ![job_id] = "start"]
       /\ file_bytes' = [file_bytes EXCEPT ![job_id] = file_bytes[EventLoop]]
       /\ filename' = [filename EXCEPT ![job_id] = filename[EventLoop]]
       /\ response' = JobAck(job_id)
       /\ prior' = [prior EXCEPT ![job_id] = prior[EventLoop], ![EventLoop] = NoPayload]
    /\ STORE_LOCK' = {}
    /\ UNCHANGED <<ANALYSIS_CACHE, cached_payload, section_summaries, payload,
                   exc, called, sent, service, units, nSync, rd, nReads, first_full,
                   rewritten>>

\* ------------------------------------------------------- _run_analysis_job
\* Mutant of SetRunning: the status is left out of the update.
SetRunningNoStatus(j) ==
    /\ pc[j] = "set_running"
    /\ JOBS' = _set_job(JOBS, j, [started_at |-> _now_iso, error |-> None])
    /\ STORE_LOCK' = {}
    /\ pc' = [pc EXCEPT ![j] = "parse"]
    /\ UNCHANGED <<ANALYSIS_CACHE, locals, service, units, response, nSync, rd, nReads, history>>

\* Line 76.
SetRunning(j) ==
    /\ pc[j] = "set_running"
    /\ JOBS' = _set_job(JOBS, j, [status |-> "running", started_at |-> _now_iso,
                                  error |-> None])
    /\ STORE_LOCK' = {}
    /\ pc' = [pc EXCEPT ![j] = "parse"]
    /\ UNCHANGED <<ANALYSIS_CACHE, locals, service, units, response, nSync, rd, nReads, history>>

\* Mutant of JobParse: the empty-text check of lines 82-83 is left out.
JobParseNoBlankCheck(j) ==
    /\ j \in JobIds
    /\ pc[j] = "parse"
    /\ LET e == extract_text_by_pages(file_bytes[j]) IN
       IF e # None
       THEN /\ exc' = [exc EXCEPT ![j] = e]
            /\ pc' = [pc EXCEPT ![j] = "fail"]
       ELSE /\ pc' = [pc EXCEPT ![j] = "lookup_wait"]
            /\ UNCHANGED exc
    /\ UNCHANGED <<JOBS, ANALYSIS_CACHE, STORE_LOCK, file_bytes, filename,
                   cached_payload, section_summaries, payload, called, sent, service, units,
                   response, nSync, rd, nReads, history>>

\* Lines 79-83: a parser exception and the ValueError of an empty text both
\* reach the handler of line 130.
JobParse(j) ==
    /\ j \in JobIds
    /\ pc[j] = "parse"
    /\ LET e == extract_text_by_pages(file_bytes[j]) IN
       IF e # None
       THEN /\ exc' = [exc EXCEPT ![j] = e]
            /\ pc' = [pc EXCEPT ![j] = "fail"]
       ELSE IF TextIsBlank(file_bytes[j])
       THEN /\ exc' = [exc EXCEPT ![j] = EmptyTextMessage]
            /\ pc' = [pc EXCEPT ![j] = "fail"]
       ELSE /\ pc' = [pc EXCEPT ![j] = "lookup_wait"]
            /\ UNCHANGED exc
    /\ UNCHANGED <<JOBS, ANALYSIS_CACHE, STORE_LOCK, file_bytes, filename,
                   cached_payload, section_summaries, payload, called, sent, service, units,
                   response, nSync, rd, nReads, history>>

\* Mutant of JobLookup: the `with STORE_LOCK:` block of line 85 stays open
\* over the rest of the job.
JobLookupKeepsLock(j) ==
    /\ j \in JobIds
    /\ pc[j] = "lookup"
    /\ LET hit == CacheGet(ANALYSIS_CACHE, Sha256(file_bytes[j])) IN
       /\ cached_payload' = [cached_payload EXCEPT ![j] = hit]
       /\ pc' = [pc EXCEPT ![j] = IF hit # NoPayload THEN "hit" ELSE "segment"]
    /\ UNCHANGED <<JOBS, ANALYSIS_CACHE, STORE_LOCK, file_bytes, filename,
                   section_summaries, payload, exc, called, sent, service, units, response,
                   nSync, rd, nReads, history>>

\* Mutant of JobLookup: the cache is not consulted.
JobLookupSkipped(j) ==
    /\ j \in JobIds
    /\ pc[j] = "lookup"
    /\ cached_payload' = [cached_payload EXCEPT ![j] = NoPayload]
    /\ pc' = [pc EXCEPT ![j] = "segment"]
    /\ STORE_LOCK' = {}
    /\ UNCHANGED <<JOBS, ANALYSIS_CACHE, file_bytes, filename,
                   section_summaries, payload, exc, called, sent, service, units, response,
                   nSync, rd, nReads, history>>

\* Lines 85-88.
JobLookup(j) ==
    /\ j \in JobIds
    /\ pc[j] = "lookup"
    /\ LET hit == CacheGet(ANALYSIS_CACHE, Sha256(file_bytes[j])) IN
       /\ cached_payload' = [cached_payload EXCEPT ![j] = hit]
       /\ pc' = [pc EXCEPT ![j] = IF hit # NoPayload THEN "hit" ELSE "segment"]
    /\ STORE_LOCK' = {}
    /\ UNCHANGED <<JOBS, ANALYSIS_CACHE, file_bytes, filename,
                   section_summaries, payload, exc, called, sent, service, units, response,
                   nSync, rd, nReads, history>>

\* Lines 89-95.
SetCached(j) ==
    /\ pc[j] = "set_cached"
    /\ JOBS' = _set_job(JOBS, j, [status |-> "completed", completed_at |-> _now_iso,
                                  result |-> MarkCached(cached_payload[j])])
    /\ first_full' = Delivered(Sha256(file_bytes[j]), MarkCached(cached_payload[j]))
    /\ STORE_LOCK' = {}
    /\ pc' = [pc EXCEPT ![j] = "done"]
    /\ cached_payload' = Dropped(cached_payload, j, NoPayload)
    /\ payload' = Dropped(payload, j, NoPayload)
    /\ sent' = Dropped(sent, j, <<>>)
    /\ exc' = Dropped(exc, j, None)
    /\ UNCHANGED <<ANALYSIS_CACHE, file_bytes, filename, section_summaries,
                   called, service, units, response, nSync, rd, nReads, prior,
                   rewritten>>

\* Mutant of JobCacheWrite: an entry already present is kept.
JobCacheWriteIfAbsent(j) ==
    /\ j \in JobIds
    /\ pc[j] = "write"
    /\ ANALYSIS_CACHE' = IF Sha256(file_bytes[j]) \in DOMAIN ANALYSIS_CACHE
                         THEN ANALYSIS_CACHE
                         ELSE Put(ANALYSIS_CACHE, Sha256(file_bytes[j]), payload[j])
    /\ rewritten' = Rewrote(Sha256(file_bytes[j]))
    /\ STORE_LOCK' = {}
    /\ pc' = [pc EXCEPT ![j] = "complete_wait"]
    /\ UNCHANGED <<JOBS, locals, service, units, response, nSync, rd, nReads,
                   first_full, prior>>

\* Lines 108-109.
JobCacheWrite(j) ==
    /\ j \in JobIds
    /\ pc[j] = "write"
    /\ ANALYSIS_CACHE' = Put(ANALYSIS_CACHE, Sha256(file_bytes[j]), payload[j])
    /\ rewritten' = Rewrote(Sha256(file_bytes[j]))
    /\ STORE_LOCK' = {}
    /\ pc' = [pc EXCEPT ![j] = "complete_wait"]
    /\ UNCHANGED <<JOBS, locals, service, units, response, nSync, rd, nReads,
                   first_full, prior>>

\* Line 110.
SetCompleted(j) ==
    /\ pc[j] = "set_completed"
    /\ JOBS' = _set_job(JOBS, j, [status |-> "completed", completed_at |-> _now_iso,
                                  result |-> payload[j]])
    /\ first_full' = Delivered(Sha256(file_bytes[j]), payload[j])
    /\ STORE_LOCK' = {}
    /\ pc' = [pc EXCEPT ![j] = "done"]
    /\ cached_payload' = Dropped(cached_payload, j, NoPayload)
    /\ payload' = Dropped(payload, j, NoPayload)
    /\ sent' = Dropped(sent, j, <<>>)
    /\ exc' = Dropped(exc, j, None)
    /\ UNCHANGED <<ANALYSIS_CACHE, file_bytes, filename, section_summaries,
                   called, service, units, response, nSync, rd, nReads, prior,
                   rewritten>>

\* Mutant of JobRateLimited: the fallback lists one entry per chunk.
JobRateLimitedPerChunk(j) ==
    /\ j \in JobIds
    /\ pc[j] = "rate_limited"
    /\ payload' = [payload EXCEPT ![j] =
            Payload(filename[j], file_bytes[j],
                    [_build_fallback_analysis(detect_sections(file_bytes[j]),
                                              FallbackReason)
                        EXCEPT !.sections =
                            [i \in 1 .. Len(Chunks(j)) |->
                                [section_name |-> Chunks(j)[i].name,
                                 page_start |-> Chunks(j)[i].page_start,
                                 summary |-> <<"Detailed LLM summary is pending due to temporary API quota limits.">>,
                                 key_points |-> <<>>,
                                 key_terms |-> <<>>]]],
                    FALSE)]
    /\ pc' = [pc EXCEPT ![j] = "quota"]
    /\ sent' = Dropped(sent, j, <<>>)
    /\ UNCHANGED <<JOBS, ANALYSIS_CACHE, STORE_LOCK, file_bytes, filename,
                   cached_payload, section_summaries, exc, called, service, units,
                   response, nSync, rd, nReads, history>>

\* Lines 111-122: the handler of RateLimitExceeded builds the fallback.
JobRateLimited(j) ==
    /\ j \in JobIds
    /\ pc[j] = "rate_limited"
    /\ payload' = [payload EXCEPT ![j] =
            Payload(filename[j], file_bytes[j],
                    _build_fallback_analysis(detect_sections(file_bytes[j]),
                                             FallbackReason),
                    FALSE)]
    /\ pc' = [pc EXCEPT ![j] = "quota"]
    /\ sent' = Dropped(sent, j, <<>>)
    /\ UNCHANGED <<JOBS, ANALYSIS_CACHE, STORE_LOCK, file_bytes, filename,
                   cached_payload, section_summaries, exc, called, service, units,
                   response, nSync, rd, nReads, history>>

\* Mutant of SetPartial: the fallback is stored in the cache as well.
SetPartialCached(j) ==
    /\ pc[j] = "set_partial"
    /\ JOBS' = _set_job(JOBS, j, [status |-> "partial", completed_at |-> _now_iso,
                                  error |-> exc[j], result |-> payload[j]])
    /\ ANALYSIS_CACHE' = Put(ANALYSIS_CACHE, Sha256(file_bytes[j]), payload[j])
    /\ STORE_LOCK' = {}
    /\ pc' = [pc EXCEPT ![j] = "done"]
    /\ cached_payload' = Dropped(cached_payload, j, NoPayload)
    /\ payload' = Dropped(payload, j, NoPayload)
    /\ sent' = Dropped(sent, j, <<>>)
    /\ exc' = Dropped(exc, j, None)
    /\ UNCHANGED <<file_bytes, filename, section_summaries,
                   called, service, units, response, nSync, rd, nReads, history>>

\* Lines 123-129.
SetPartial(j) ==
    /\ pc[j] = "set_partial"
    /\ JOBS' = _set_job(JOBS, j, [status |-> "partial", completed_at |-> _now_iso,
                                  error |-> exc[j], result |-> payload[j]])
    /\ STORE_LOCK' = {}
    /\ pc' = [pc EXCEPT ![j] = "done"]
    /\ cached_payload' = Dropped(cached_payload, j, NoPayload)
    /\ payload' = Dropped(payload, j, NoPayload)
    /\ sent' = Dropped(sent, j, <<>>)
    /\ exc' = Dropped(exc, j, None)
    /\ UNCHANGED <<ANALYSIS_CACHE, file_bytes, filename, section_summaries,
                   called, service, units, response, nSync, rd, nReads, history>>

\* Mutant of SetFailed: the handler of line 130 runs the job again.
SetFailedRetry(j) ==
    /\ pc[j] = "set_failed"
    /\ STORE_LOCK' = {}
    /\ pc' = [pc EXCEPT ![j] = "parse"]
    /\ exc' = Dropped(exc, j, None)
    /\ UNCHANGED <<JOBS, ANALYSIS_CACHE, file_bytes, filename, cached_payload,
                   section_summaries, payload, called, sent, service, units, response,
                   nSync, rd, nReads, history>>

\* Mutant of SetFailed: the update leaves completed_at out.
SetFailedNoClock(j) ==
    /\ pc[j] = "set_failed"
    /\ JOBS' = _set_job(JOBS, j, [status |-> "failed", error |-> exc[j]])
    /\ STORE_LOCK' = {}
    /\ pc' = [pc EXCEPT ![j] = "done"]
    /\ cached_payload' = Dropped(cached_payload, j, NoPayload)
    /\ payload' = Dropped(payload, j, NoPayload)
    /\ sent' = Dropped(sent, j, <<>>)
    /\ exc' = Dropped(exc, j, None)
    /\ UNCHANGED <<ANALYSIS_CACHE, file_bytes, filename, section_summaries,
                   called, service, units, response, nSync, rd, nReads, history>>

\* Lines 130-131.
SetFailed(j) ==
    /\ pc[j] = "set_failed"
    /\ JOBS' = _set_job(JOBS, j, [status |-> "failed", completed_at |-> _now_iso,
                                  error |-> exc[j]])
    /\ STORE_LOCK' = {}
    /\ pc' = [pc EXCEPT ![j] = "done"]
    /\ cached_payload' = Dropped(cached_payload, j, NoPayload)
    /\ payload' = Dropped(payload, j, NoPayload)
    /\ sent' = Dropped(sent, j, <<>>)
    /\ exc' = Dropped(exc, j, None)
    /\ UNCHANGED <<ANALYSIS_CACHE, file_bytes, filename, section_summaries,
                   called, service, units, response, nSync, rd, nReads, history>>

\* ------------------------------------------------------------ process_paper
\* History only: one invocation of _call_gemini by process_paper, for chunk
\* number `index` or for the global synthesis, and how it ended.
Invocation(target, index, kind) == [target |-> target, index |-> index, kind |-> kind]

\* The scripts the service can follow in the current run.
ServiceScripts == IF service = "always_quota" THEN {QuotaScript} ELSE Scripts

\* main.py line 97 / 215: detect_sections, then process_paper is entered and
\* chunks the sections (summarizer.py line 202).
Segment(p) ==
    /\ pc[p] = "segment"
    /\ section_summaries' = [section_summaries EXCEPT ![p] = <<>>]
    /\ pc' = [pc EXCEPT ![p] = IF Len(Chunks(p)) = 0 THEN "synthesize" ELSE "summarize"]
    /\ UNCHANGED <<JOBS, ANALYSIS_CACHE, STORE_LOCK, file_bytes, filename,
                   cached_payload, payload, exc, called, sent, service, units, response,
                   nSync, rd, nReads, history>>

\* Mutant of Summarize: a chunk that met quota exhaustion is degraded like
\* any failed chunk and the loop goes on.
SummarizeDegradesAll(p) ==
    /\ pc[p] = "summarize"
    /\ \E script \in ServiceScripts :
        LET chunk == Chunks(p)[Len(section_summaries[p]) + 1]
            r == _call_gemini(script)
            last == Len(section_summaries[p]) + 1 = Len(Chunks(p))
        IN  /\ sent' = [sent EXCEPT ![p] =
                          Append(@, Invocation("chunk", Len(section_summaries[p]) + 1,
                                               r.kind))]
            /\ CASE r.kind = "ok" ->
                     /\ section_summaries' = [section_summaries EXCEPT ![p] =
                                                 Append(@, summarize_chunk(chunk))]
                     /\ pc' = [pc EXCEPT ![p] = IF last THEN "synthesize" ELSE "summarize"]
                     /\ UNCHANGED exc
                 [] r.kind = "error" ->
                     /\ section_summaries' = [section_summaries EXCEPT ![p] =
                                                 Append(@, DegradedSummary(chunk, ServiceError))]
                     /\ pc' = [pc EXCEPT ![p] = IF last THEN "synthesize" ELSE "summarize"]
                     /\ UNCHANGED exc
                 [] OTHER ->
                     /\ section_summaries' = [section_summaries EXCEPT ![p] =
                                                 Append(@, DegradedSummary(chunk, RateLimitMessage))]
                     /\ pc' = [pc EXCEPT ![p] = IF last THEN "synthesize" ELSE "summarize"]
                     /\ UNCHANGED exc
    /\ called' = [called EXCEPT ![p] = TRUE]
    /\ UNCHANGED <<JOBS, ANALYSIS_CACHE, STORE_LOCK, file_bytes, filename,
                   cached_payload, payload, service, units, response, nSync, rd, nReads, history>>

\* Mutant of Summarize: a non-quota error of a chunk ends the pipeline.
SummarizeAbortsOnError(p) ==
    /\ pc[p] = "summarize"
    /\ \E script \in ServiceScripts :
        LET chunk == Chunks(p)[Len(section_summaries[p]) + 1]
            r == _call_gemini(script)
            last == Len(section_summaries[p]) + 1 = Len(Chunks(p))
        IN  /\ sent' = [sent EXCEPT ![p] =
                          Append(@, Invocation("chunk", Len(section_summaries[p]) + 1,
                                               r.kind))]
            /\ CASE r.kind = "ok" ->
                     /\ section_summaries' = [section_summaries EXCEPT ![p] =
                                                 Append(@, summarize_chunk(chunk))]
                     /\ pc' = [pc EXCEPT ![p] = IF last THEN "synthesize" ELSE "summarize"]
                     /\ UNCHANGED exc
                 [] r.kind = "error" ->
                     /\ exc' = [exc EXCEPT ![p] = ServiceError]
                     /\ pc' = [pc EXCEPT ![p] = "fail"]
                     /\ section_summaries' = Dropped(section_summaries, p, <<>>)
                 [] OTHER ->
                     /\ exc' = [exc EXCEPT ![p] = RateLimitMessage]
                     /\ pc' = [pc EXCEPT ![p] = "rate_limited"]
                     /\ section_summaries' = Dropped(section_summaries, p, <<>>)
    /\ called' = [called EXCEPT ![p] = TRUE]
    /\ UNCHANGED <<JOBS, ANALYSIS_CACHE, STORE_LOCK, file_bytes, filename,
                   cached_payload, payload, service, units, response, nSync, rd, nReads, history>>

\* summarizer.py lines 206-219: one turn of the chunk loop, with the whole
\* _call_gemini invocation of summarize_chunk.
Summarize(p) ==
    /\ pc[p] = "summarize"
    /\ \E script \in ServiceScripts :
        LET chunk == Chunks(p)[Len(section_summaries[p]) + 1]
            r == _call_gemini(script)
            last == Len(section_summaries[p]) + 1 = Len(Chunks(p))
        IN  /\ sent' = [sent EXCEPT ![p] =
                          Append(@, Invocation("chunk", Len(section_summaries[p]) + 1,
                                               r.kind))]
            /\ CASE r.kind = "ok" ->
                     /\ section_summaries' = [section_summaries EXCEPT ![p] =
                                                 Append(@, summarize_chunk(chunk))]
                     /\ pc' = [pc EXCEPT ![p] = IF last THEN "synthesize" ELSE "summarize"]
                     /\ UNCHANGED exc
                 [] r.kind = "error" ->
                     /\ section_summaries' = [section_summaries EXCEPT ![p] =
                                                 Append(@, DegradedSummary(chunk, ServiceError))]
                     /\ pc' = [pc EXCEPT ![p] = IF last THEN "synthesize" ELSE "summarize"]
                     /\ UNCHANGED exc
                 [] OTHER ->
                     /\ exc' = [exc EXCEPT ![p] = RateLimitMessage]
                     /\ pc' = [pc EXCEPT ![p] = "rate_limited"]
                     /\ section_summaries' = Dropped(section_summaries, p, <<>>)
    /\ called' = [called EXCEPT ![p] = TRUE]
    /\ UNCHANGED <<JOBS, ANALYSIS_CACHE, STORE_LOCK, file_bytes, filename,
                   cached_payload, payload, service, units, response, nSync, rd, nReads, history>>

\* summarizer.py lines 222-245, then the payload of main.py lines 101-107 /
\* 234-240.
Synthesize(p) ==
    /\ pc[p] = "synthesize"
    /\ \E script \in ServiceScripts :
        LET r == _call_gemini(script)
            global_analysis == IF r.kind = "ok" THEN GlobalResponse
                               ELSE PlaceholderGlobal(ServiceError)
        IN  /\ sent' = [sent EXCEPT ![p] = Append(@, Invocation("global", 0, r.kind))]
            /\ IF r.kind = "rate_limit"
               THEN /\ exc' = [exc EXCEPT ![p] = RateLimitMessage]
                    /\ pc' = [pc EXCEPT ![p] = "rate_limited"]
                    /\ UNCHANGED payload
               ELSE /\ payload' = [payload EXCEPT ![p] =
                           Payload(filename[p], file_bytes[p],
                                   FullAnalysis(global_analysis, section_summaries[p],
                                                detect_sections(file_bytes[p]), Chunks(p)),
                                   FALSE)]
                    /\ pc' = [pc EXCEPT ![p] = "write_wait"]
                    /\ UNCHANGED exc
    /\ section_summaries' = Dropped(section_summaries, p, <<>>)
    /\ called' = [called EXCEPT ![p] = TRUE]
    /\ UNCHANGED <<JOBS, ANALYSIS_CACHE, STORE_LOCK, file_bytes, filename,
                   cached_payload, service, units, response, nSync, rd, nReads, history>>

\* --------------------------------------------------------------- analyze_pdf
\* Lines 191-195.
AnalyzeReceive(f, d) ==
    /\ pc[EventLoop] = "idle"
    /\ nSync < MaxSync
    /\ nSync' = nSync + 1
    /\ IF ~IsPdfName(f)
       THEN /\ response' = Http(400, <<"Only PDF files are accepted.">>)
            /\ prior' = [prior EXCEPT ![EventLoop] = NoPayload]
            /\ UNCHANGED <<pc, file_bytes, filename>>
       ELSE /\ pc' = [pc EXCEPT ![EventLoop] = "parse"]
            /\ file_bytes' = [file_bytes EXCEPT ![EventLoop] = d]
            /\ filename' = [filename EXCEPT ![EventLoop] = f]
            /\ prior' = Arrived(EventLoop, d)
            /\ UNCHANGED response
    /\ called' = [called EXCEPT ![EventLoop] = FALSE]
    /\ UNCHANGED <<JOBS, ANALYSIS_CACHE, STORE_LOCK, cached_payload,
                   section_summaries, payload, exc, sent, service, units, rd, nReads,
                   first_full, rewritten>>

\* Lines 197-208.
AnalyzeParse ==
    /\ pc[EventLoop] = "parse"
    /\ LET e == extract_text_by_pages(file_bytes[EventLoop]) IN
       IF e # None
       THEN /\ response' = Http(422, <<"Failed to parse PDF: ", e>>)
            /\ pc' = [pc EXCEPT ![EventLoop] = "idle"]
       ELSE IF TextIsBlank(file_bytes[EventLoop])
       THEN /\ response' = Http(422, <<EmptyTextMessage>>)
            /\ pc' = [pc EXCEPT ![EventLoop] = "idle"]
       ELSE /\ pc' = [pc EXCEPT ![EventLoop] = "lookup_wait"]
            /\ UNCHANGED response
    /\ UNCHANGED <<JOBS, ANALYSIS_CACHE, STORE_LOCK, locals, service, units, nSync,
                   rd, nReads, history>>

\* Lines 210-213.
AnalyzeLookup ==
    /\ pc[EventLoop] = "lookup"
    /\ LET hit == CacheGet(ANALYSIS_CACHE, Sha256(file_bytes[EventLoop])) IN
       /\ IF hit # NoPayload
          THEN /\ response' = Ok200(MarkCached(hit))
               /\ first_full' = Delivered(Sha256(file_bytes[EventLoop]), MarkCached(hit))
               /\ pc' = [pc EXCEPT ![EventLoop] = "idle"]
          ELSE /\ pc' = [pc EXCEPT ![EventLoop] = "segment"]
               /\ UNCHANGED <<response, first_full>>
    /\ STORE_LOCK' = {}
    /\ UNCHANGED <<JOBS, ANALYSIS_CACHE, locals, service, units, nSync, rd, nReads, prior,
                   rewritten>>

\* Lines 219-227: the handler of RateLimitExceeded answers 429 with a text.
AnalyzeRateLimited ==
    /\ pc[EventLoop] = "rate_limited"
    /\ response' = Http(429,
            <<"Gemini rate limit reached. Please retry in a few minutes or use POST /jobs/analyze for async processing. Details: ",
              exc[EventLoop]>>)
    /\ pc' = [pc EXCEPT ![EventLoop] = "idle"]
    /\ exc' = Dropped(exc, EventLoop, None)
    /\ sent' = Dropped(sent, EventLoop, <<>>)
    /\ UNCHANGED <<JOBS, ANALYSIS_CACHE, STORE_LOCK, file_bytes, filename,
                   cached_payload, section_summaries, payload, called, service, units,
                   nSync, rd, nReads, history>>

\* Lines 242-245.
AnalyzeCacheWrite ==
    /\ pc[EventLoop] = "write"
    /\ ANALYSIS_CACHE' = Put(ANALYSIS_CACHE, Sha256(file_bytes[EventLoop]),
                             payload[EventLoop])
    /\ response' = Ok200(payload[EventLoop])
    /\ first_full' = Delivered(Sha256(file_bytes[EventLoop]), payload[EventLoop])
    /\ rewritten' = Rewrote(Sha256(file_bytes[EventLoop]))
    /\ STORE_LOCK' = {}
    /\ pc' = [pc EXCEPT ![EventLoop] = "idle"]
    /\ payload' = Dropped(payload, EventLoop, NoPayload)
    /\ sent' = Dropped(sent, EventLoop, <<>>)
    /\ UNCHANGED <<JOBS, file_bytes, filename, cached_payload,
                   section_summaries, exc, called, service, units, nSync, rd, nReads, prior>>

\* ------------------------------------------- get_job_status, get_job_result
\* A request for get_job_status ("status") or get_job_result ("result")
\* reaches a pool thread.
ReadCall(op, id) ==
    /\ rd.pc \in {"idle", "done"}
    /\ nReads < MaxReads
    /\ nReads' = nReads + 1
    /\ rd' = [IdleReader EXCEPT !.op = op, !.id = id, !.pc = "wait"]
    /\ UNCHANGED <<JOBS, ANALYSIS_CACHE, STORE_LOCK, pc, locals, service, units,
                   response, nSync, history>>

\* Line 285 / 304: `with STORE_LOCK:` entered.
ReadAcquire ==
    /\ rd.pc = "wait"
    /\ STORE_LOCK = {}
    /\ STORE_LOCK' = {Reader}
    /\ rd' = [rd EXCEPT !.pc = "get"]
    /\ UNCHANGED <<JOBS, ANALYSIS_CACHE, pc, locals, service, units, response, nSync,
                   nReads, history>>

\* Lines 286-289 / 305-308: job = JOBS.get(job_id) is a reference to the
\* record, not a copy; the lock is released; an unknown id is answered 404.
ReadGet ==
    /\ rd.pc = "get"
    /\ STORE_LOCK' = {}
    /\ IF rd.id \in DOMAIN JOBS
       THEN rd' = [rd EXCEPT !.found = TRUE, !.pc = "status"]
       ELSE rd' = [rd EXCEPT !.code = 404, !.detail = "Job not found",
                             !.pc = "done"]
    /\ UNCHANGED <<JOBS, ANALYSIS_CACHE, pc, locals, service, units, response, nSync,
                   nReads, history>>

\* get_job_status, lines 292-294: job["job_id"], job["filename"] (never
\* rebound) and job["status"].
StatusReadStatus ==
    /\ rd.op = "status" /\ rd.pc = "status"
    /\ rd' = [rd EXCEPT !.status = JOBS[rd.id].status, !.pc = "started_at"]
    /\ UNCHANGED <<JOBS, ANALYSIS_CACHE, STORE_LOCK, pc, locals, service, units,
                   response, nSync, nReads, history>>

\* Lines 295-296: job["created_at"] (never rebound) and job["started_at"].
StatusReadStarted ==
    /\ rd.op = "status" /\ rd.pc = "started_at"
    /\ rd' = [rd EXCEPT !.started_at = JOBS[rd.id].started_at,
                        !.pc = "completed_at"]
    /\ UNCHANGED <<JOBS, ANALYSIS_CACHE, STORE_LOCK, pc, locals, service, units,
                   response, nSync, nReads, history>>

\* Line 297.
StatusReadCompleted ==
    /\ rd.op = "status" /\ rd.pc = "completed_at"
    /\ rd' = [rd EXCEPT !.completed_at = JOBS[rd.id].completed_at,
                        !.pc = "error"]
    /\ UNCHANGED <<JOBS, ANALYSIS_CACHE, STORE_LOCK, pc, locals, service, units,
                   response, nSync, nReads, history>>

\* Lines 298-299: job["error"], and the view is returned.
StatusReadError ==
    /\ rd.op = "status" /\ rd.pc = "error"
    /\ rd' = [rd EXCEPT !.error = JOBS[rd.id].error, !.code = 200, !.pc = "done"]
    /\ UNCHANGED <<JOBS, ANALYSIS_CACHE, STORE_LOCK, pc, locals, service, units,
                   response, nSync, nReads, history>>

\* Mutant of ResultReadStatus: only a queued job counts as still processing.
ResultReadStatusQueuedOnly ==
    /\ rd.op = "result" /\ rd.pc = "status"
    /\ LET status == JOBS[rd.id].status IN
       IF status = "queued"
       THEN rd' = [rd EXCEPT !.status = status, !.code = 409,
                             !.detail = "Job is still processing", !.pc = "done"]
       ELSE rd' = [rd EXCEPT !.status = status, !.pc = "status_again"]
    /\ UNCHANGED <<JOBS, ANALYSIS_CACHE, STORE_LOCK, pc, locals, service, units,
                   response, nSync, nReads, history>>

\* get_job_result, lines 310-311.
ResultReadStatus ==
    /\ rd.op = "result" /\ rd.pc = "status"
    /\ LET status == JOBS[rd.id].status IN
       IF status \in {"queued", "running"}
       THEN rd' = [rd EXCEPT !.status = status, !.code = 409,
                             !.detail = "Job is still processing", !.pc = "done"]
       ELSE rd' = [rd EXCEPT !.status = status, !.pc = "status_again"]
    /\ UNCHANGED <<JOBS, ANALYSIS_CACHE, STORE_LOCK, pc, locals, service, units,
                   response, nSync, nReads, history>>

\* Line 313: job["status"] is read a second time.
ResultReadStatusAgain ==
    /\ rd.op = "result" /\ rd.pc = "status_again"
    /\ LET status == JOBS[rd.id].status IN
       rd' = [rd EXCEPT !.status = status,
                        !.pc = IF status = "failed" THEN "error" ELSE "result"]
    /\ UNCHANGED <<JOBS, ANALYSIS_CACHE, STORE_LOCK, pc, locals, service, units,
                   response, nSync, nReads, history>>

\* job["error"] or "Job failed": None and "" are both falsy.
ErrorDetail(error) == IF error \in {None, ""} THEN "Job failed" ELSE error

\* Line 314.
ResultReadError ==
    /\ rd.op = "result" /\ rd.pc = "error"
    /\ rd' = [rd EXCEPT !.error = JOBS[rd.id].error, !.code = 500,
                        !.detail = ErrorDetail(JOBS[rd.id].error), !.pc = "done"]
    /\ UNCHANGED <<JOBS, ANALYSIS_CACHE, STORE_LOCK, pc, locals, service, units,
                   response, nSync, nReads, history>>

\* Line 316.
ResultReadResult ==
    /\ rd.op = "result" /\ rd.pc = "result"
    /\ rd' = [rd EXCEPT !.body = JOBS[rd.id].result, !.code = 200, !.pc = "done"]
    /\ UNCHANGED <<JOBS, ANALYSIS_CACHE, STORE_LOCK, pc, locals, service, units,
                   response, nSync, nReads, history>>

\* ------------------------------------------------------------ specification
Create ==
    \/ \E f \in Filenames, d \in Docs : CreateReceive(f, d)
    \/ CreateInsert

Worker(j) ==
    \/ SetRunning(j)
    \/ JobParse(j)
    \/ JobLookup(j)
    \/ SetCached(j)
    \/ Segment(j)
    \/ Summarize(j)
    \/ Synthesize(j)
    \/ JobCacheWrite(j)
    \/ SetCompleted(j)
    \/ JobRateLimited(j)
    \/ SetPartial(j)
    \/ SetFailed(j)

Analyze ==
    \/ \E f \in Filenames, d \in Docs : AnalyzeReceive(f, d)
    \/ AnalyzeParse
    \/ AnalyzeLookup
    \/ Segment(EventLoop)
    \/ Summarize(EventLoop)
    \/ Synthesize(EventLoop)
    \/ AnalyzeRateLimited
    \/ AnalyzeCacheWrite

Next ==
    \/ \E p \in Procs : Acquire(p)
    \/ Create
    \/ \E j \in JobIds : Worker(j)
    \/ Analyze

Spec == Init /\ [][Next]_vars

\* The accessors against the workers: jobs are created and run while one
\* accessor call at a time reads the registry.
Read ==
    \/ \E op \in {"status", "result"}, id \in JobIds : ReadCall(op, id)
    \/ ReadAcquire
    \/ ReadGet
    \/ StatusReadStatus
    \/ StatusReadStarted
    \/ StatusReadCompleted
    \/ StatusReadError
    \/ ResultReadStatus
    \/ ResultReadStatusAgain
    \/ ResultReadError
    \/ ResultReadResult

ReadNext ==
    \/ \E p \in Procs : Acquire(p)
    \/ Create
    \/ \E j \in JobIds : Worker(j)
    \/ Read

ReadSpec == Init /\ [][ReadNext]_vars

\* The asynchronous path alone: jobs are created and run.
JobsNext ==
    \/ \E p \in Procs : Acquire(p)
    \/ Create
    \/ \E j \in JobIds : Worker(j)

\* Scheduling: a pool thread that can take a step of its job eventually takes
\* it, and the event loop leaves a locked block it has entered.  Every call a
\* step makes (the parser, the service, a backoff sleep) returns or raises.
FairSpec ==
    /\ Init
    /\ [][JobsNext]_vars
    /\ \A j \in JobIds : WF_vars(Acquire(j) \/ Worker(j))
    /\ WF_vars(CreateInsert)

\* ------------------------------------------------- _call_gemini on its own
\* What one attempt of _call_gemini meets: a response that json.loads accepts,
\* or an exception; of its text, line 108 reads whether it holds
\* "RESOURCE_EXHAUSTED" and whether, lowered, it holds "quota".
OkResponse ==
    [ok |-> TRUE, text |-> "{...}", resource_exhausted |-> FALSE, quota |-> FALSE]

AttemptErrors ==
    {[ok |-> FALSE, text |-> "429 RESOURCE_EXHAUSTED",
      resource_exhausted |-> TRUE, quota |-> FALSE],
     [ok |-> FALSE, text |-> "Quota exceeded for metric generate_content",
      resource_exhausted |-> FALSE, quota |-> TRUE],
     [ok |-> FALSE, text |-> ServiceError,
      resource_exhausted |-> FALSE, quota |-> FALSE]}

AttemptOutcomes == {OkResponse} \cup AttemptErrors

\* Line 108.
IsQuotaError(e) == e.resource_exhausted \/ e.quota

\* The outcome as the scripts of the pipeline name it.
Classify(o) ==
    IF o.ok THEN "ok" ELSE IF IsQuotaError(o) THEN "quota" ELSE "other"

\* An invocation starts: attempt 0 is due, nothing called, nothing slept.
CallInit ==
    /\ ProgramInit
    /\ service = "any"
    /\ chunker = NoChunking
    /\ \E script \in [1 .. max_retries -> AttemptOutcomes] :
          call = [pc |-> "attempt", script |-> script, attempt |-> 0,
                  calls |-> 0, sleeps |-> <<>>, returned |-> None,
                  raised |-> None, rate_limited |-> FALSE]

\* Mutant of CallAttempt: a quota error raises RateLimitExceeded at once.
CallAttemptNoRetry ==
    /\ call.pc = "attempt"
    /\ LET o == call.script[call.attempt + 1] IN
       IF o.ok
       THEN call' = [call EXCEPT !.calls = @ + 1, !.returned = o.text,
                                 !.pc = "returned"]
       ELSE IF IsQuotaError(o)
       THEN call' = [call EXCEPT !.calls = @ + 1, !.raised = RateLimitMessage,
                                 !.rate_limited = TRUE, !.pc = "raised"]
       ELSE call' = [call EXCEPT !.calls = @ + 1, !.raised = o.text,
                                 !.pc = "raised"]
    /\ UNCHANGED <<JOBS, ANALYSIS_CACHE, STORE_LOCK, pc, locals, service,
                   response, nSync, rd, nReads, history, chunker>>

\* Mutant of CallAttempt: every error is retried like a quota error.
CallAttemptRetriesAll ==
    /\ call.pc = "attempt"
    /\ LET o == call.script[call.attempt + 1] IN
       IF o.ok
       THEN call' = [call EXCEPT !.calls = @ + 1, !.returned = o.text,
                                 !.pc = "returned"]
       ELSE IF call.attempt < max_retries - 1
       THEN call' = [call EXCEPT !.calls = @ + 1, !.pc = "sleep"]
       ELSE call' = [call EXCEPT !.calls = @ + 1, !.raised = RateLimitMessage,
                                 !.rate_limited = TRUE, !.pc = "raised"]
    /\ UNCHANGED <<JOBS, ANALYSIS_CACHE, STORE_LOCK, pc, locals, service,
                   response, nSync, rd, nReads, history, chunker>>

\* summarizer.py lines 96-109 and 114-120: one turn of the loop up to its
\* return, its raise or its sleep.  A loop that ran out would return None.
CallAttempt ==
    /\ call.pc = "attempt"
    /\ IF call.attempt >= max_retries
       THEN call' = [call EXCEPT !.pc = "returned"]
       ELSE LET o == call.script[call.attempt + 1] IN
            IF o.ok
            THEN call' = [call EXCEPT !.calls = @ + 1, !.returned = o.text,
                                      !.pc = "returned"]
            ELSE IF IsQuotaError(o)
            THEN IF call.attempt < max_retries - 1
                 THEN call' = [call EXCEPT !.calls = @ + 1, !.pc = "sleep"]
                 ELSE call' = [call EXCEPT !.calls = @ + 1,
                                           !.raised = RateLimitMessage,
                                           !.rate_limited = TRUE, !.pc = "raised"]
            ELSE call' = [call EXCEPT !.calls = @ + 1, !.raised = o.text,
                                      !.pc = "raised"]
    /\ UNCHANGED <<JOBS, ANALYSIS_CACHE, STORE_LOCK, pc, locals, service,
                   response, nSync, rd, nReads, history, chunker>>

\* Mutant of CallSleep: the delay does not grow.
CallSleepFixedDelay ==
    /\ call.pc = "sleep"
    /\ call' = [call EXCEPT !.sleeps = Append(@, base_delay),
                            !.attempt = @ + 1, !.pc = "attempt"]
    /\ UNCHANGED <<JOBS, ANALYSIS_CACHE, STORE_LOCK, pc, locals, service,
                   response, nSync, rd, nReads, history, chunker>>

\* Lines 110-113: the backoff sleep, then the next turn of the loop.
CallSleep ==
    /\ call.pc = "sleep"
    /\ call' = [call EXCEPT !.sleeps = Append(@, base_delay * Pow2(call.attempt)),
                            !.attempt = @ + 1, !.pc = "attempt"]
    /\ UNCHANGED <<JOBS, ANALYSIS_CACHE, STORE_LOCK, pc, locals, service,
                   response, nSync, rd, nReads, history, chunker>>

CallNext == CallAttempt \/ CallSleep

\* The service answers every attempt and every sleep ends.
CallSpec == CallInit /\ [][CallNext]_vars /\ WF_vars(CallNext)

\* ---------------------------------------------- chunk_by_sections on its own
\* The paragraphs a section's content splits into: an empty one (a run of
\* blank lines), a short one, one that ends in a blank, and one longer than
\* any budget of BudgetPool.
ParaPool == {Empty, Text(3), AStr(5, 0, 1), Text(9)}

BudgetPool == {6, 8}

ParaLists == UNION {[1 .. m -> ParaPool] : m \in 1 .. MaxParas}

SectionNames == <<"Abstract", "Methods", "Results", "Conclusion">>

\* chunk_by_sections is called with up to MaxSections sections, section k
\* starting on page k, and a budget.
ChunkInit ==
    /\ ProgramInit
    /\ service = "any"
    /\ call = NoCall
    /\ \E n \in 1 .. MaxSections, max_chars \in BudgetPool :
          \E paras \in [1 .. n -> ParaLists] :
              chunker = [pc |-> "called",
                         sections |-> [k \in 1 .. n |->
                                          Section(SectionNames[k], paras[k], k)],
                         max_chars |-> max_chars,
                         chunks |-> <<>>]

\* summarizer.py lines 49-87: the call returns its chunks.
ChunkReturn ==
    /\ chunker.pc = "called"
    /\ chunker' = [chunker EXCEPT
                      !.chunks = chunk_by_sections(chunker.sections, chunker.max_chars),
                      !.pc = "returned"]
    /\ UNCHANGED <<JOBS, ANALYSIS_CACHE, STORE_LOCK, pc, locals, service,
                   response, nSync, rd, nReads, history, call>>

ChunkNext == ChunkReturn

ChunkSpec == ChunkInit /\ [][ChunkNext]_vars

\* ------------------------------------------------------------------- claims
Terminal == {"completed", "partial", "failed"}

StatusSteps ==
    {<<"queued", "running">>} \cup {<<"running", t>> : t \in Terminal}

\* C1: a job record appears with status queued; afterwards its status changes
\* only from queued to running and from running to completed, partial or
\* failed, so a terminal status is never left.
C1_StatusSequence ==
    [][\A j \in JobIds :
          /\ (j \notin DOMAIN JOBS /\ j \in DOMAIN JOBS')
                => JOBS'[j].status = "queued"
          /\ j \in DOMAIN JOBS
                => /\ j \in DOMAIN JOBS'
                   /\ \/ JOBS'[j].status = JOBS[j].status
                      \/ <<JOBS[j].status, JOBS'[j].status>> \in StatusSteps]_vars

\* A job has ended partial while another is still queued and a status read
\* has been answered.
C1_Witness ==
    /\ \E j \in DOMAIN JOBS : JOBS[j].status = "partial"
    /\ \E j \in DOMAIN JOBS : JOBS[j].status = "queued"
    /\ rd.op = "status" /\ rd.pc = "done" /\ rd.found

\* The answer of a finished get_job_result call, but for the text of a 500:
\* 404 exactly when JOBS.get found nothing; 409 when the status read was
\* queued or running; otherwise the job is in the terminal status that was
\* read, which is answered 500 when failed and else 200 with the stored,
\* non-null result.
ResultAnswered == rd.op = "result" /\ rd.pc = "done"

ResultAnswerShape ==
    ResultAnswered =>
        /\ rd.code \in {404, 409, 500, 200}
        /\ rd.code = 404 <=> ~rd.found
        /\ rd.found => rd.id \in DOMAIN JOBS
        /\ rd.found => (rd.code = 409 <=> rd.status \in {"queued", "running"})
        /\ rd.code \in {500, 200} => JOBS[rd.id].status = rd.status
        /\ rd.code = 500 <=> (rd.found /\ rd.status = "failed")
        /\ rd.code = 200 =>
              /\ rd.status \in {"completed", "partial"}
              /\ rd.body = JOBS[rd.id].result
              /\ rd.body # NoPayload

\* C2 as claimed: get_job_result answers not-found for an unknown id, 409 for
\* a queued or running job, the stored error for a failed job and the stored
\* non-null result for a completed or partial job.
C2_ResultAnswerClaimed ==
    /\ ResultAnswerShape
    /\ (ResultAnswered /\ rd.code = 500) => rd.detail = JOBS[rd.id].error

\* C2, amended: as claimed, except that a failed job whose stored error is
\* the empty string is answered with the fixed text "Job failed".
C2_ResultAnswer ==
    /\ ResultAnswerShape
    /\ (ResultAnswered /\ rd.code = 500) =>
          rd.detail = IF JOBS[rd.id].error = "" THEN "Job failed"
                      ELSE JOBS[rd.id].error

\* get_job_result has answered 500 for a job that failed with an empty
\* message.
C2_Witness ==
    /\ ResultAnswered
    /\ rd.code = 500
    /\ JOBS[rd.id].error = ""
    /\ rd.detail = "Job failed"

\* C3: under the scheduling of FairSpec, every job handed to a background
\* worker eventually has a terminal status: none stays queued or running.
C3_JobTerminates ==
    \A j \in JobIds :
        (pc[j] = "start") ~> (j \in DOMAIN JOBS /\ JOBS[j].status \in Terminal)

\* Every job has run to its end, one through the failure handler and one
\* through the pipeline and its calls to the service.
C3_Witness ==
    /\ \A j \in JobIds : pc[j] = "done" /\ JOBS[j].status \in Terminal
    /\ \E j \in JobIds : JOBS[j].status = "failed"
    /\ \E j \in JobIds : JOBS[j].status = "completed" /\ called[j]

BadDoc(d) == extract_text_by_pages(d) # None \/ TextIsBlank(d)

\* The payload is a fallback for document d: mode "fallback_quota_limited"
\* and one entry per detected section, in order, under the section's own name
\* and page.
IsFallbackFor(p, d) ==
    /\ p # NoPayload
    /\ p.analysis.stats.mode = "fallback_quota_limited"
    /\ Len(p.analysis.sections) = Len(detect_sections(d))
    /\ \A i \in 1 .. Len(detect_sections(d)) :
          /\ p.analysis.sections[i].section_name =
                ChunkName(detect_sections(d)[i].name, 0)
          /\ p.analysis.sections[i].page_start = detect_sections(d)[i].page_start

\* C5: when every service call raises a quota error, a job on a parseable,
\* non-empty document ends partial with a fallback of one entry per detected
\* section, and get_job_result for the ended job returns that fallback.
C5_QuotaFallback ==
    service = "always_quota" =>
        /\ \A j \in JobIds :
              (pc[j] = "done" /\ ~BadDoc(file_bytes[j])) =>
                  /\ JOBS[j].status = "partial"
                  /\ IsFallbackFor(JOBS[j].result, file_bytes[j])
        /\ (ResultAnswered /\ rd.found /\ rd.status \in Terminal
                /\ ~BadDoc(file_bytes[rd.id])) =>
              /\ rd.status = "partial"
              /\ rd.code = 200
              /\ IsFallbackFor(rd.body, file_bytes[rd.id])

\* With the service always out of quota, get_job_result has returned the
\* result of a partial job whose document makes more chunks than sections.
C5_Witness ==
    /\ service = "always_quota"
    /\ ResultAnswered /\ rd.code = 200
    /\ JOBS[rd.id].status = "partial"
    /\ Len(Chunks(rd.id)) > Len(detect_sections(file_bytes[rd.id]))

\* A payload process_paper returned for document d: no fallback mode, one
\* summary per chunk.
IsFullFor(p, d) ==
    /\ p # NoPayload
    /\ p.analysis.stats.mode = None
    /\ p.analysis.stats.total_chunks_processed =
          Len(chunk_by_sections(detect_sections(d), MAX_CHUNK_CHARS))
    /\ Len(p.analysis.sections) = p.analysis.stats.total_chunks_processed
    /\ ~p.cached

\* C6: no cache entry is a fallback; every entry is a payload process_paper
\* returned for the document of its digest, and a run in which every request
\* meets quota exhaustion writes nothing.
C6_NoFallbackCached ==
    /\ \A d \in Docs :
          Sha256(d) \in DOMAIN ANALYSIS_CACHE =>
              IsFullFor(ANALYSIS_CACHE[Sha256(d)], d)
    /\ DOMAIN ANALYSIS_CACHE \subseteq {Sha256(d) : d \in Docs}
    /\ service = "always_quota" => ANALYSIS_CACHE = <<>>

\* A job has ended partial and the synchronous request was answered 429,
\* while the cache holds an entry for the partial job's digest.
C6_Witness ==
    /\ \E j \in JobIds :
          /\ pc[j] = "done" /\ JOBS[j].status = "partial"
          /\ Sha256(file_bytes[j]) \in DOMAIN ANALYSIS_CACHE
    /\ response.code = 429

\* C7 as claimed: an entry of the cache, once present, is never removed or
\* changed by any step.
C7_FirstWriteWins ==
    [][\A h \in DOMAIN ANALYSIS_CACHE :
          /\ h \in DOMAIN ANALYSIS_CACHE'
          /\ ANALYSIS_CACHE'[h] = ANALYSIS_CACHE[h]]_vars

\* The message a failed request on a bad document carries.
BadDocMessage(d) ==
    IF extract_text_by_pages(d) # None THEN extract_text_by_pages(d)
    ELSE EmptyTextMessage

\* C8: a request on a document that fails to parse or has blank text never
\* gets past the parse step, so it calls no service and no cache entry exists
\* for its digest; the job ends failed with the message stored and no result;
\* analyze_pdf answers 422 with the parse or empty-content message.
C8_BadDocRejected ==
    /\ \A d \in Docs : BadDoc(d) => Sha256(d) \notin DOMAIN ANALYSIS_CACHE
    /\ \A j \in JobIds :
          (pc[j] # "none" /\ BadDoc(file_bytes[j])) =>
              /\ pc[j] \in {"start", "set_running", "parse", "fail",
                            "set_failed", "done"}
              /\ ~called[j]
              /\ pc[j] = "done" =>
                    /\ JOBS[j].status = "failed"
                    /\ JOBS[j].error = BadDocMessage(file_bytes[j])
                    /\ JOBS[j].result = NoPayload
    /\ (filename[EventLoop] # None /\ BadDoc(file_bytes[EventLoop])) =>
          /\ pc[EventLoop] \in {"idle", "create_wait", "create", "parse"}
          /\ ~called[EventLoop]
          /\ pc[EventLoop] = "idle" =>
                \/ response.code = 400
                \/ response.code = 200 /\ "job_id" \in DOMAIN response.body
                \/ /\ response.code = 422
                   /\ response.body = NoPayload
                   /\ response.detail =
                         IF extract_text_by_pages(file_bytes[EventLoop]) # None
                         THEN <<"Failed to parse PDF: ",
                                extract_text_by_pages(file_bytes[EventLoop])>>
                         ELSE <<EmptyTextMessage>>
    /\ (pc[EventLoop] = "idle" /\ response.code = 422) =>
          BadDoc(file_bytes[EventLoop])

\* A job on a blank document has ended failed and analyze_pdf has answered
\* 422, while the cache holds an entry of another request.
C8_Witness ==
    /\ \E j \in JobIds :
          /\ pc[j] = "done" /\ TextIsBlank(file_bytes[j])
          /\ extract_text_by_pages(file_bytes[j]) = None
          /\ JOBS[j].error = EmptyTextMessage
    /\ response.code = 422
    /\ ANALYSIS_CACHE # <<>>

\* C9 as claimed: a 429 of analyze_pdf carries a fallback analysis.
C9_SyncFallbackEmbedded ==
    response.code = 429 => IsFallbackFor(response.body, file_bytes[EventLoop])

\* The states a job record has been in up to now: as created, as set running,
\* and as it is.
PastRecords(j) ==
    LET created == NewJob(j, JOBS[j].filename)
        running == Updated(created, [status |-> "running",
                                     started_at |-> _now_iso, error |-> None])
    IN  {JOBS[j]}
        \cup (IF JOBS[j].status # "queued" THEN {created} ELSE {})
        \cup (IF JOBS[j].status \in Terminal THEN {running} ELSE {})

\* C10 as claimed: the status, started_at, completed_at and error of a view
\* get_job_status returned are those of one state of the record.
C10_NoTornRead ==
    (rd.op = "status" /\ rd.pc = "done" /\ rd.found) =>
        \E r \in PastRecords(rd.id) :
            /\ rd.status = r.status
            /\ rd.started_at = r.started_at
            /\ rd.completed_at = r.completed_at
            /\ rd.error = r.error

\* The positions inside a `with STORE_LOCK:` block: one read or write of JOBS
\* or ANALYSIS_CACHE each.
LockedPositions == {LockedBlock[w] : w \in DOMAIN LockedBlock}

\* The positions of the long-running work: parsing, segmenting and chunking,
\* the service calls with their backoff sleeps, building the fallback.
LongWork == {"parse", "segment", "summarize", "synthesize", "rate_limited"}

\* C11: the lock has at most one holder, and a handler or worker holds it
\* only inside a locked block, never while it parses, segments, calls the
\* service or sleeps.
C11_LockOnlyAroundAccess ==
    /\ Cardinality(STORE_LOCK) <= 1
    /\ \A p \in Procs :
          /\ p \in STORE_LOCK => pc[p] \in LockedPositions
          /\ pc[p] \in LongWork => p \notin STORE_LOCK

\* A job is in the chunk loop, having called the service, while another
\* process is inside a locked block.
C11_Witness ==
    \E j \in JobIds, q \in Procs :
        /\ q # j
        /\ pc[j] = "summarize" /\ called[j]
        /\ STORE_LOCK = {q}

\* The step is the cache write of request p.
WritesBack(p) == pc[p] = "write" /\ pc'[p] # "write"

\* C12: a request that writes back leaves its own payload as the entry of its
\* digest, whether or not the digest had an entry, and nothing else changes
\* the cache: the last writer determines the entry.
C12_LastWriterWins ==
    [][/\ \A p \in Procs :
             WritesBack(p) =>
                 ANALYSIS_CACHE' = Put(ANALYSIS_CACHE, Sha256(file_bytes[p]),
                                       payload[p])
       /\ ANALYSIS_CACHE' # ANALYSIS_CACHE => \E p \in Procs : WritesBack(p)]_vars

\* Two jobs on the same bytes have both missed the cache, both called the
\* service and both completed with different payloads; the entry has been
\* written over and is the payload of one of them, not the first delivered.
C12_Witness ==
    \E j1 \in JobIds, j2 \in JobIds :
        /\ j1 # j2
        /\ pc[j1] = "done" /\ pc[j2] = "done"
        /\ file_bytes[j1] = file_bytes[j2]
        /\ called[j1] /\ called[j2]
        /\ JOBS[j1].status = "completed" /\ JOBS[j2].status = "completed"
        /\ JOBS[j1].result # JOBS[j2].result
        /\ Sha256(file_bytes[j1]) \in rewritten
        /\ ANALYSIS_CACHE[Sha256(file_bytes[j1])] = JOBS[j2].result
        /\ first_full[Sha256(file_bytes[j1])] = JOBS[j1].result

CallFinished == call.pc \in {"returned", "raised"}

\* The script as the pipeline's model of _call_gemini reads it.
Classified == [a \in 1 .. max_retries |-> Classify(call.script[a])]

RECURSIVE Sum(_)
Sum(seq) == IF Len(seq) = 0 THEN 0 ELSE Head(seq) + Sum(Tail(seq))

\* What C13 says of every state of an invocation.
CallBounded ==
    /\ call.calls <= 3
    /\ call.pc = "returned" =>
          /\ call.calls >= 1
          /\ call.script[call.calls].ok
          /\ call.returned = call.script[call.calls].text
          /\ \A a \in 1 .. call.calls - 1 : ~call.script[a].ok
    /\ CallFinished =>
          /\ (call.pc = "raised" /\ call.rate_limited)
                <=> \A a \in 1 .. 3 :
                        ~call.script[a].ok /\ IsQuotaError(call.script[a])
          /\ call.rate_limited => call.calls = 3 /\ call.raised = RateLimitMessage
          /\ _call_gemini(Classified).calls = call.calls
          /\ _call_gemini(Classified).kind =
                IF call.pc = "returned" THEN "ok"
                ELSE IF call.rate_limited THEN "rate_limit" ELSE "error"

\* C13: one invocation of _call_gemini calls the service at most 3 times and
\* ends; it returns the response of the first attempt that succeeds, and
\* raises RateLimitExceeded exactly when all 3 attempts met a quota error.
C13_AtMostThreeCalls == []CallBounded /\ <>CallFinished

\* An invocation has returned the response of its third attempt after two
\* quota errors of the two kinds.
C13_Witness ==
    /\ call.pc = "returned" /\ call.calls = 3
    /\ call.script[1].resource_exhausted /\ call.script[2].quota

\* C14: an attempt that meets a non-quota error ends the invocation with that
\* error, unchanged: it is the last attempt made and no sleep follows it,
\* whichever attempt it is.
C14_OtherErrorPropagates ==
    /\ (call.pc = "raised" /\ ~call.rate_limited) =>
          /\ ~call.script[call.calls].ok
          /\ ~IsQuotaError(call.script[call.calls])
          /\ call.raised = call.script[call.calls].text
    /\ call.pc # "idle" =>
          \A a \in 1 .. call.calls :
              (~call.script[a].ok /\ ~IsQuotaError(call.script[a])) =>
                  /\ a = call.calls
                  /\ call.pc = "raised" /\ ~call.rate_limited
                  /\ Len(call.sleeps) = a - 1

\* A non-quota error on the third attempt has been propagated after the two
\* sleeps of the quota errors before it.
C14_Witness ==
    /\ call.pc = "raised" /\ ~call.rate_limited
    /\ call.calls = 3 /\ Len(call.sleeps) = 2
    /\ call.raised = ServiceError

\* C15: the sleeps of one invocation are 40 and then 80 seconds, base_delay *
\* 2^a after a quota error on attempt a; each lies between two attempts, so
\* none precedes the first attempt or follows the last, and they sum to at
\* most 120.
C15_BackoffSleeps ==
    call.pc # "idle" =>
        /\ \A i \in 1 .. Len(call.sleeps) :
              /\ call.sleeps[i] = base_delay * Pow2(i - 1)
              /\ call.sleeps[i] = IF i = 1 THEN 40 ELSE 80
              /\ ~call.script[i].ok /\ IsQuotaError(call.script[i])
              /\ i < max_retries
        /\ call.pc = "attempt" => Len(call.sleeps) = call.calls
        /\ call.pc # "attempt" => Len(call.sleeps) = call.calls - 1
        /\ call.pc = "sleep" =>
              IsQuotaError(call.script[call.calls]) /\ call.calls < max_retries
        /\ Sum(call.sleeps) <= 120
        /\ CallFinished => _call_gemini(Classified).slept = Sum(call.sleeps)

\* RateLimitExceeded has been raised after sleeps of 40 and 80 seconds.
C15_Witness ==
    /\ call.pc = "raised" /\ call.rate_limited
    /\ call.sleeps = <<40, 80>>

\* C16: process_paper sends its chunks in order and then the synthesis, each
\* once; an invocation that ended with RateLimitExceeded is the last one
\* sent, and the request then stands in the handler of RateLimitExceeded with
\* no analysis built, a rate-limited synthesis included.
C16_QuotaAborts ==
    \A p \in Procs :
        LET n == Len(sent[p])
            chunks == Chunks(p)
        IN  /\ n <= Len(chunks) + 1
            /\ \A i \in 1 .. n :
                  /\ sent[p][i].target = IF i <= Len(chunks) THEN "chunk" ELSE "global"
                  /\ sent[p][i].index = IF i <= Len(chunks) THEN i ELSE 0
                  /\ sent[p][i].kind = "rate_limit" => i = n
            /\ (n > 0 /\ sent[p][n].kind = "rate_limit") =>
                  /\ pc[p] = "rate_limited"
                  /\ exc[p] = RateLimitMessage
                  /\ payload[p] = NoPayload
            /\ pc[p] = "rate_limited" => (n > 0 /\ sent[p][n].kind = "rate_limit")

\* A job has aborted on the first of its two chunks, and the synchronous
\* request on the synthesis call after both chunks.
C16_Witness ==
    /\ \E j \in JobIds :
          /\ pc[j] = "rate_limited"
          /\ Len(sent[j]) = 1 /\ Len(Chunks(j)) = 2
    /\ pc[EventLoop] = "rate_limited"
    /\ Len(sent[EventLoop]) = 3
    /\ sent[EventLoop][3].target = "global"

\* The payload is what process_paper returns for document d: one summary per
\* chunk in chunk order, each the service's or the degraded one, the global
\* analysis the service's or the placeholder, and the chunk count in stats.
IsPipelineResult(p, d) ==
    LET chunks == chunk_by_sections(detect_sections(d), MAX_CHUNK_CHARS) IN
    /\ p # NoPayload
    /\ Len(p.analysis.sections) = Len(chunks)
    /\ \A i \in 1 .. Len(chunks) :
          p.analysis.sections[i] \in {summarize_chunk(chunks[i]),
                                      DegradedSummary(chunks[i], ServiceError)}
    /\ p.analysis.global \in {GlobalResponse, PlaceholderGlobal(ServiceError)}
    /\ p.analysis.stats.total_chunks_processed = Len(chunks)
    /\ p.analysis.stats.total_sections = Len(detect_sections(d))

\* The payload process_paper returned agrees with how its invocations ended.
FollowsInvocations(p, log, d) ==
    LET chunks == chunk_by_sections(detect_sections(d), MAX_CHUNK_CHARS) IN
    /\ Len(log) = Len(chunks) + 1
    /\ \A i \in 1 .. Len(chunks) :
          p.analysis.sections[i] =
              IF log[i].kind = "error" THEN DegradedSummary(chunks[i], ServiceError)
              ELSE summarize_chunk(chunks[i])
    /\ p.analysis.global =
          IF log[Len(chunks) + 1].kind = "error" THEN PlaceholderGlobal(ServiceError)
          ELSE GlobalResponse
    /\ p.analysis.global.inferred_title =
          IF log[Len(chunks) + 1].kind = "error" THEN "Unknown" ELSE "A Paper"

\* C17: a request on a parseable, non-empty document ends with a full result
\* unless an invocation met quota exhaustion, whatever other errors occurred:
\* a job ends completed, or partial with the rate-limit message; the full
\* result has one summary per chunk in order, degraded for a failed chunk,
\* the placeholder for a failed synthesis, and counts the chunks.
C17_NonQuotaErrorsAbsorbed ==
    /\ \A j \in JobIds :
          (pc[j] = "done" /\ ~BadDoc(file_bytes[j])) =>
              /\ JOBS[j].status \in {"completed", "partial"}
              /\ JOBS[j].status = "partial" <=> JOBS[j].error = RateLimitMessage
              /\ JOBS[j].status = "completed" =>
                    IsPipelineResult(JOBS[j].result, file_bytes[j])
    /\ \A p \in Procs :
          pc[p] \in {"write_wait", "write", "complete_wait", "set_completed"} =>
              /\ IsPipelineResult(payload[p], file_bytes[p])
              /\ FollowsInvocations(payload[p], sent[p], file_bytes[p])
    /\ \A p \in Procs :
          (Len(sent[p]) = Len(Chunks(p)) + 1
                /\ sent[p][Len(sent[p])].kind # "rate_limit") =>
              pc[p] \in {"write_wait", "write", "complete_wait", "set_completed"}
    /\ response.code \notin {500}
    /\ (pc[EventLoop] = "idle" /\ response.code = 200
            /\ "analysis" \in DOMAIN response.body) =>
          IsPipelineResult(response.body, file_bytes[EventLoop])

\* A job has completed with its first chunk degraded and the placeholder
\* global analysis, the second chunk summarized.
C17_Witness ==
    \E j \in JobIds :
        /\ pc[j] = "done" /\ JOBS[j].status = "completed" /\ called[j]
        /\ JOBS[j].result.analysis.sections[1] =
              DegradedSummary(Chunks(j)[1], ServiceError)
        /\ JOBS[j].result.analysis.sections[2] = summarize_chunk(Chunks(j)[2])
        /\ JOBS[j].result.analysis.global.inferred_title = "Unknown"
        /\ JOBS[j].result.analysis.stats.total_chunks_processed = 2

\* C18: every cache entry carries cached = false; a result a job stores
\* carries cached = true exactly when the job made no service call, which is
\* the cache hit, and then the job is completed; a payload analyze_pdf returns
\* carries cached = true exactly when the request made no service call.
C18_CachedFlag ==
    /\ \A h \in DOMAIN ANALYSIS_CACHE : ~ANALYSIS_CACHE[h].cached
    /\ \A j \in JobIds :
          /\ pc[j] \in {"hit", "set_cached"} =>
                cached_payload[j] # NoPayload /\ ~called[j]
          /\ (pc[j] = "done" /\ JOBS[j].result # NoPayload) =>
                /\ JOBS[j].result.cached <=> ~called[j]
                /\ JOBS[j].result.cached => JOBS[j].status = "completed"
          /\ (pc[j] = "done" /\ ~called[j] /\ ~BadDoc(file_bytes[j])) =>
                /\ JOBS[j].status = "completed"
                /\ JOBS[j].result # NoPayload
                /\ JOBS[j].result.cached
    /\ (pc[EventLoop] = "idle" /\ response.code = 200
            /\ "cached" \in DOMAIN response.body) =>
          (response.body.cached <=> ~called[EventLoop])

\* One job has been served from the cache and another has computed a
\* fallback, after analyze_pdf computed the entry.
C18_Witness ==
    /\ \E j \in JobIds :
          /\ pc[j] = "done" /\ JOBS[j].status = "completed"
          /\ JOBS[j].result.cached /\ ~called[j]
    /\ \E j \in JobIds :
          /\ pc[j] = "done" /\ JOBS[j].status = "partial"
          /\ ~JOBS[j].result.cached /\ called[j]
    /\ ANALYSIS_CACHE # <<>>
    /\ response.code = 200 /\ "cached" \in DOMAIN response.body
    /\ ~response.body.cached

\* The fields of a record that no update names.
Identity(job) ==
    [job_id |-> job.job_id, filename |-> job.filename, created_at |-> job.created_at]

\* C19: a record enters JOBS only by create_analysis_job, for an id JOBS does
\* not hold and whose task has not been scheduled, as queued with started_at,
\* completed_at, error and result unset; a record in JOBS stays, with its
\* job_id, filename and created_at as inserted.
C19_CreateFrame ==
    [][\A j \in JobIds :
          /\ (j \notin DOMAIN JOBS /\ j \in DOMAIN JOBS') =>
                /\ pc[EventLoop] = "create"
                /\ pc[j] = "none" /\ pc'[j] = "start"
                /\ JOBS'[j] = [job_id |-> j, filename |-> filename[EventLoop],
                               status |-> "queued", created_at |-> _now_iso,
                               started_at |-> None, completed_at |-> None,
                               error |-> None, result |-> NoPayload]
          /\ j \in DOMAIN JOBS =>
                /\ j \in DOMAIN JOBS'
                /\ Identity(JOBS'[j]) = Identity(JOBS[j])
                /\ JOBS'[j].job_id = j]_vars

\* Both jobs have run to a terminal status, their records still in JOBS under
\* their ids.
C19_Witness ==
    /\ DOMAIN JOBS = JobIds
    /\ \A j \in JobIds :
          /\ pc[j] = "done" /\ JOBS[j].job_id = j
          /\ JOBS[j].filename = "paper.pdf" /\ JOBS[j].created_at = _now_iso
    /\ \E j \in JobIds : JOBS[j].status = "partial"
    /\ \E j \in JobIds : JOBS[j].status = "failed" /\ JOBS[j].error = ""

\* C20 as claimed: every chunk chunk_by_sections returns has content of at
\* most max_chars characters.
C20_ChunksWithinBudget ==
    chunker.pc = "returned" =>
        \A i \in 1 .. Len(chunker.chunks) :
            chunker.chunks[i].content.len <= chunker.max_chars

\* The section a returned chunk was cut from (the sections of one call carry
\* distinct names), and the positions of the chunks cut from section k.
SectionOf(i) ==
    CHOOSE k \in 1 .. Len(chunker.sections) :
        chunker.sections[k].name = chunker.chunks[i].name.base

ChunksOf(k) ==
    {i \in 1 .. Len(chunker.chunks) :
        chunker.chunks[i].name.base = chunker.sections[k].name}

\* The chunks follow the sections' order and carry their section's page_start.
ChunksKeepOrderAndPage ==
    /\ \A i \in 1 .. Len(chunker.chunks) :
          /\ \E k \in 1 .. Len(chunker.sections) :
                chunker.sections[k].name = chunker.chunks[i].name.base
          /\ chunker.chunks[i].page_start =
                chunker.sections[SectionOf(i)].page_start
    /\ \A i, j \in 1 .. Len(chunker.chunks) :
          i < j => SectionOf(i) <= SectionOf(j)

\* A section cut into k > 1 chunks yields "S (Part 1)" .. "S (Part k)" in order.
PartsNumbered ==
    \A k \in 1 .. Len(chunker.sections) :
        Cardinality(ChunksOf(k)) > 1 =>
            \A i \in ChunksOf(k) :
                chunker.chunks[i].name.part =
                    1 + Cardinality({j \in ChunksOf(k) : j < i})

\* A section that yields a single chunk keeps its name (part 0: no suffix).
SingleKeepsName ==
    \A k \in 1 .. Len(chunker.sections) :
        Cardinality(ChunksOf(k)) = 1 =>
            \A i \in ChunksOf(k) : chunker.chunks[i].name.part = 0

\* C21 as claimed: chunk_by_sections keeps the sections' order and page_start;
\* a section that yields one chunk keeps its name, and a section that yields
\* k > 1 chunks yields them named "S (Part 1)" to "S (Part k)" in order.
C21_ChunkNaming ==
    chunker.pc = "returned" =>
        /\ ChunksKeepOrderAndPage
        /\ PartsNumbered
        /\ SingleKeepsName

\* What the code keeps of C21: order, page_start and the numbering of a
\* section cut into several chunks.
C21_OrderAndNumbering ==
    chunker.pc = "returned" => ChunksKeepOrderAndPage /\ PartsNumbered

\* The fields of job j's record agree with its status.
RecordAgrees(j) ==
    LET job == JOBS[j] IN
    /\ job.started_at # None <=> job.status # "queued"
    /\ job.completed_at # None <=> job.status \in Terminal
    /\ job.result # NoPayload <=> job.status \in {"completed", "partial"}
    /\ job.error # None <=> job.status \in {"partial", "failed"}
    /\ job.status = "partial" => IsFallbackFor(job.result, file_bytes[j])
    /\ job.status = "completed" =>
          IsFullFor([job.result EXCEPT !.cached = FALSE], file_bytes[j])

\* C22: in every reachable state each job record's fields agree with its
\* status: started_at is set exactly when the status is not queued,
\* completed_at exactly when it is terminal, result exactly when it is
\* completed or partial, error exactly when it is partial or failed; a
\* partial job's result is a fallback and a completed job's a full analysis.
C22_RecordAgreesWithStatus ==
    /\ DOMAIN JOBS \subseteq JobIds
    /\ \A j \in DOMAIN JOBS :
          /\ JOBS[j].status \in {"queued", "running"} \cup Terminal
          /\ RecordAgrees(j)

\* One job has completed from a cache hit and another has ended partial.
C22_Witness ==
    /\ \E j \in DOMAIN JOBS :
          /\ JOBS[j].status = "completed" /\ JOBS[j].result.cached
          /\ JOBS[j].error = None /\ JOBS[j].completed_at # None
    /\ \E j \in DOMAIN JOBS :
          /\ JOBS[j].status = "partial"
          /\ JOBS[j].error = RateLimitMessage
          /\ JOBS[j].result # NoPayload

\* A job has failed on a parser exception without a message: its error is the
\* empty string, its result unset, while another job is still queued.
C22_FailedSeen ==
    /\ \E j \in DOMAIN JOBS :
          /\ JOBS[j].status = "failed" /\ JOBS[j].error = ""
          /\ JOBS[j].result = NoPayload
    /\ \E j \in DOMAIN JOBS :
          JOBS[j].status = "queued" /\ JOBS[j].started_at = None

====
